---- MODULE Spec2Model ----
(***************************************************************************)
(* AxeBuilder for Cypress (src/src/index.ts and its helpers): the builder  *)
(* state, the injection guard, the context builder and the retry loop of   *)
(* analyze(), as a state machine.                                          *)
(*                                                                         *)
(* Cypress runs its command queue one command at a time; a then-callback   *)
(* returning a chainable or a promise holds the queue until it settles.    *)
(* Builder mutators are synchronous and may be called from any callback,   *)
(* also while a command of the same builder is pending.                    *)
(***************************************************************************)
EXTENDS Integers, Sequences, FiniteSets, TLC

\* ------------------------------------------------------------ bounds
MaxRetries == 3
MaxOps == 2
MaxQueue == 1

\* ------------------------------------------------------------ JS values
Undefined == [t |-> "undefined", s |-> "", n |-> 0]
Str(x) == [t |-> "string", s |-> x, n |-> 0]
Num(x) == [t |-> "number", s |-> "", n |-> x]

\* JS truthiness of the values the model uses: "" , 0 and undefined are falsy.
Truthy(v) ==
    \/ v.t = "string" /\ v.s # ""
    \/ v.t = "number" /\ v.n # 0

\* `v || d` on a number-or-undefined option.
OrDefault(v, d) == IF Truthy(v) THEN v.n ELSE d

\* ------------------------------------------------------------ input sets
IncludeInputs == {Str("body"), Str(""), Num(7)}
ExcludeInputs == {Str("#ads"), Undefined}
RuleIds == {"color-contrast", "label"}
TagInputs == {[isArray |-> TRUE, arr |-> <<"wcag2a", "wcag2aa">>, one |-> ""],
              [isArray |-> FALSE, arr |-> <<>>, one |-> "wcag2a"]}
RuleInputs == {[isArray |-> TRUE, arr |-> <<"color-contrast">>, one |-> ""],
               [isArray |-> FALSE, arr |-> <<>>, one |-> "label"]}
RetriesInputs == {Num(r) : r \in -1 .. MaxRetries}
IntervalInputs == {Num(0), Num(500)}
ViolationCounts == {0, 1}
Specs == {"spec"}

NoRunOnly == [type |-> "none", values |-> <<>>]
NoRules == [r \in RuleIds |-> "absent"]

\* An options object: a key whose value is Undefined / NoRunOnly / 0 / "absent"
\* is not present. `rules` is a reference into the heap of rule maps (0: no
\* such key); `rulesLit` is the rule map of an object literal handed to options().
EmptyOptions ==
    [interval |-> Undefined, retries |-> Undefined, runOnly |-> NoRunOnly,
     rules |-> 0, iframes |-> "absent"]

OptionsInputs ==
    {[interval |-> Undefined, retries |-> r, runOnly |-> NoRunOnly,
      rulesLit |-> NoRules, hasRules |-> FALSE, iframes |-> "absent"] : r \in RetriesInputs}
    \cup
    {[interval |-> i, retries |-> Undefined, runOnly |-> NoRunOnly,
      rulesLit |-> NoRules, hasRules |-> FALSE, iframes |-> "absent"] : i \in IntervalInputs}
    \cup
    {[interval |-> Undefined, retries |-> Num(1), runOnly |-> NoRunOnly,
      rulesLit |-> [NoRules EXCEPT !["label"] = "on"], hasRules |-> TRUE, iframes |-> "absent"],
     [interval |-> Undefined, retries |-> Undefined,
      runOnly |-> [type |-> "tag", values |-> <<"best-practice">>],
      rulesLit |-> NoRules, hasRules |-> FALSE, iframes |-> "false"]}

\* window.axe of the page under test.
AxeAbsent == [type |-> "absent", run |-> FALSE, configure |-> FALSE]
AxeNull == [type |-> "null", run |-> FALSE, configure |-> FALSE]
AxeObject(r, c) == [type |-> "object", run |-> r, configure |-> c]
AxeEngine == AxeObject(TRUE, TRUE)
InitialPages ==
    {AxeAbsent, AxeNull, AxeObject(FALSE, TRUE), AxeObject(TRUE, FALSE), AxeEngine}

NoResult == [kind |-> "none", run |-> 0, violations |-> 0]

VARIABLES
    _includes,          \* this._includes
    _excludes,          \* this._excludes
    _options,           \* this._options
    heap,               \* the rule-override objects, by reference
    axe,                \* window.axe of the page
    queue,              \* Cypress command queue: analyze()/configure() not yet started
    pc,                 \* position of the running command
    cur,                \* the running command
    ensure,             \* how this command's injection step ended
    context,            \* analyze(): const context
    axeOptions,         \* analyze(): const axeOptions
    interval,           \* analyze(): const interval
    retries,            \* analyze(): const retries
    remainingRetries,   \* analyze(): let remainingRetries
    runLog,             \* axe.run invocations of this command
    configureLog,       \* axe.configure invocations of this command
    result,             \* what the command resolved with
    error,              \* what the command failed with
    readCount,          \* cy.readFile invocations on this page load
    evalCount,          \* win.eval invocations on this page load
    inFlight,           \* commands, script reads and axe.run calls not yet settled
    ops                 \* builder mutator calls so far

vars == <<_includes, _excludes, _options, heap, axe, queue, pc, cur, ensure,
          context, axeOptions, interval, retries, remainingRetries, runLog, configureLog,
          result, error, readCount, evalCount, inFlight, ops>>

builderVars == <<_includes, _excludes, _options, heap, ops>>
callVars == <<pc, cur, ensure, context, axeOptions, interval, retries, remainingRetries,
              runLog, configureLog, result, error, inFlight>>
pageVars == <<axe, readCount, evalCount>>

NoCommand == [op |-> "none", spec |-> ""]
NoContext == [defined |-> FALSE, include |-> FALSE, exclude |-> FALSE]
NoAxeOptions == EmptyOptions
NothingInFlight == [commands |-> 0, injections |-> 0, scans |-> 0]

Init ==
    /\ _includes = <<>>
    /\ _excludes = <<>>
    /\ _options = EmptyOptions
    /\ heap = <<>>
    /\ axe \in InitialPages
    /\ queue = <<>>
    /\ pc = "idle"
    /\ cur = NoCommand
    /\ ensure = "none"
    /\ context = NoContext
    /\ axeOptions = NoAxeOptions
    /\ interval = Undefined
    /\ retries = Undefined
    /\ remainingRetries = 0
    /\ runLog = <<>>
    /\ configureLog = <<>>
    /\ result = NoResult
    /\ error = "none"
    /\ readCount = 0
    /\ evalCount = 0
    /\ inFlight = NothingInFlight
    /\ ops = 0

\* ------------------------------------------------------------ helpers (utils)
\* Array.isArray(selector) ? selector : [selector]
normalizeSelector(selector) ==
    IF selector.isArray THEN selector.arr ELSE <<selector.one>>

\* Mutant: the guard never finds the engine.
isAxeInjected_Never(win) == FALSE

\* 'axe' in win && typeof win.axe === 'object' && typeof win.axe.run === 'function'
\* (typeof null is 'object': reading .run of null throws, see isAxeInjectedThrows)
isAxeInjected(win) ==
    /\ win.type # "absent"
    /\ win.type \in {"object", "null"}
    /\ win.run

isAxeInjectedThrows(win) == win.type = "null"

\* win.eval(source): the engine script defines window.axe with run and configure.
injectAxeCore(win) == AxeEngine

\* ------------------------------------------------------------ builder mutators
CanMutate == ops < MaxOps

\* Mutant: the selector is put in front of the list (unshift instead of push).
include_Prepends(selector) ==
    /\ CanMutate
    /\ _includes' = IF Truthy(selector) THEN <<selector>> \o _includes ELSE _includes
    /\ ops' = ops + 1
    /\ UNCHANGED <<_excludes, _options, heap, queue, callVars, pageVars>>

include(selector) ==
    /\ CanMutate
    /\ _includes' = IF Truthy(selector) THEN Append(_includes, selector) ELSE _includes
    /\ ops' = ops + 1
    /\ UNCHANGED <<_excludes, _options, heap, queue, callVars, pageVars>>

exclude(selector) ==
    /\ CanMutate
    /\ _excludes' = IF Truthy(selector) THEN Append(_excludes, selector) ELSE _excludes
    /\ ops' = ops + 1
    /\ UNCHANGED <<_includes, _options, heap, queue, callVars, pageVars>>

\* Mutant: { ...options, ...this._options }, a key already configured wins.
MergeOptions_KeepsOld(old, new, rulesRef) ==
    [interval |-> IF old.interval # Undefined THEN old.interval ELSE new.interval,
     retries |-> IF old.retries # Undefined THEN old.retries ELSE new.retries,
     runOnly |-> IF old.runOnly # NoRunOnly THEN old.runOnly ELSE new.runOnly,
     rules |-> IF old.rules # 0 THEN old.rules
               ELSE IF new.hasRules THEN rulesRef ELSE 0,
     iframes |-> IF old.iframes # "absent" THEN old.iframes ELSE new.iframes]

\* { ...this._options, ...options }
MergeOptions(old, new, rulesRef) ==
    [interval |-> IF new.interval # Undefined THEN new.interval ELSE old.interval,
     retries |-> IF new.retries # Undefined THEN new.retries ELSE old.retries,
     runOnly |-> IF new.runOnly # NoRunOnly THEN new.runOnly ELSE old.runOnly,
     rules |-> IF new.hasRules THEN rulesRef ELSE old.rules,
     iframes |-> IF new.iframes # "absent" THEN new.iframes ELSE old.iframes]

options(o) ==
    /\ CanMutate
    /\ heap' = IF o.hasRules THEN Append(heap, o.rulesLit) ELSE heap
    /\ _options' = MergeOptions(_options, o, Len(heap) + 1)
    /\ ops' = ops + 1
    /\ UNCHANGED <<_includes, _excludes, queue, callVars, pageVars>>

\* Mutant: a filter that is already set is kept (first call wins).
withRules_KeepsEarlier(rules) ==
    /\ CanMutate
    /\ _options' = IF _options.runOnly = NoRunOnly
                   THEN [_options EXCEPT
                           !.runOnly = [type |-> "rule", values |-> normalizeSelector(rules)]]
                   ELSE _options
    /\ ops' = ops + 1
    /\ UNCHANGED <<_includes, _excludes, heap, queue, callVars, pageVars>>

withRules(rules) ==
    /\ CanMutate
    /\ _options' = [_options EXCEPT
                      !.runOnly = [type |-> "rule", values |-> normalizeSelector(rules)]]
    /\ ops' = ops + 1
    /\ UNCHANGED <<_includes, _excludes, heap, queue, callVars, pageVars>>

withTags(tags) ==
    /\ CanMutate
    /\ _options' = [_options EXCEPT
                      !.runOnly = [type |-> "tag", values |-> normalizeSelector(tags)]]
    /\ ops' = ops + 1
    /\ UNCHANGED <<_includes, _excludes, heap, queue, callVars, pageVars>>

\* ruleArray.forEach(rule => this._options.rules[rule] = { enabled: false })
DisableAll(map, ruleArray) ==
    [r \in RuleIds |->
        IF \E i \in 1 .. Len(ruleArray) : ruleArray[i] = r THEN "off" ELSE map[r]]

\* Mutant: the rule map is started afresh on every call.
disableRules_Replaces(rules) ==
    LET ruleArray == normalizeSelector(rules)
        ref == Len(heap) + 1
    IN  /\ CanMutate
        /\ heap' = Append(heap, DisableAll(NoRules, ruleArray))
        /\ _options' = [_options EXCEPT !.rules = ref]
        /\ ops' = ops + 1
        /\ UNCHANGED <<_includes, _excludes, queue, callVars, pageVars>>

disableRules(rules) ==
    LET ruleArray == normalizeSelector(rules)
        fresh == _options.rules = 0
        ref == IF fresh THEN Len(heap) + 1 ELSE _options.rules
        base == IF fresh THEN Append(heap, NoRules) ELSE heap
    IN  /\ CanMutate
        /\ heap' = [base EXCEPT ![ref] = DisableAll(base[ref], ruleArray)]
        /\ _options' = [_options EXCEPT !.rules = ref]
        /\ ops' = ops + 1
        /\ UNCHANGED <<_includes, _excludes, queue, callVars, pageVars>>

setLegacyMode(legacyMode) ==
    /\ CanMutate
    /\ ops' = ops + 1
    /\ UNCHANGED <<_includes, _excludes, _options, heap, queue, callVars, pageVars>>

\* ------------------------------------------------------------ context builder
\* Mutant: a context object is built even when both lists are empty.
_buildContext_AlwaysObject ==
    [defined |-> TRUE, include |-> Len(_includes) > 0, exclude |-> Len(_excludes) > 0]

_buildContext ==
    LET hasIncludes == Len(_includes) > 0
        hasExcludes == Len(_excludes) > 0
    IN  IF ~hasIncludes /\ ~hasExcludes
        THEN NoContext
        ELSE [defined |-> TRUE, include |-> hasIncludes, exclude |-> hasExcludes]

\* What the engine reads through `context || win.document`: context.include and
\* context.exclude ARE this._includes and this._excludes (the same arrays).
ContextValue(ctx) ==
    [document |-> ~ctx.defined,
     hasInclude |-> ctx.include,
     include |-> IF ctx.include THEN _includes ELSE <<>>,
     hasExclude |-> ctx.exclude,
     exclude |-> IF ctx.exclude THEN _excludes ELSE <<>>]

\* Mutant: only `interval` is taken out of the options handed to the engine.
RestOptions_KeepsRetries(o) == [o EXCEPT !.interval = Undefined]

\* const { interval, retries, ...axeOptions } = this._options: a shallow copy, so
\* axeOptions.rules is the same object as this._options.rules.
RestOptions(o) == [o EXCEPT !.interval = Undefined, !.retries = Undefined]

\* What the engine reads through axeOptions.
OptionsValue(ao) ==
    [interval |-> ao.interval,
     retries |-> ao.retries,
     runOnly |-> ao.runOnly,
     hasRules |-> ao.rules # 0,
     rules |-> IF ao.rules # 0 THEN heap[ao.rules] ELSE NoRules,
     iframes |-> ao.iframes]

\* ------------------------------------------------------------ commands
DefaultInterval == 1000

\* analyze() and configure() only enqueue cy.window().then(...)
analyze ==
    /\ Len(queue) < MaxQueue
    /\ queue' = Append(queue, [op |-> "analyze", spec |-> ""])
    /\ UNCHANGED <<builderVars, callVars, pageVars>>

configure(config) ==
    /\ Len(queue) < MaxQueue
    /\ queue' = Append(queue, [op |-> "configure", spec |-> config])
    /\ UNCHANGED <<builderVars, callVars, pageVars>>

\* Bookkeeping of what is in flight: c commands, i script reads, r runs more.
InFlightPlus(c, i, r) ==
    [commands |-> inFlight.commands + c,
     injections |-> inFlight.injections + i,
     scans |-> inFlight.scans + r]

\* Mutant: the callbacks do not return their chainable / promise, so Cypress takes
\* the next command from its queue while the previous one is still at work.
QueueReady_NotAwaited == pc # "failed"

\* Cypress takes the next command when the previous one has settled: each callback
\* returns the chainable / promise of the step it started.
QueueReady == pc \in {"idle", "done"}

\* Mutant: the chainable of cy.readFile is not returned, so the caller's callback
\* does not wait for the injection.
_ensureAxeInjected_NotAwaited(win) ==
    /\ pc' = "ensured"
    /\ error' = "none"
    /\ ensure' = "none"
    /\ readCount' = IF isAxeInjected(win) THEN readCount ELSE readCount + 1

\* _ensureAxeInjected(win), up to the point where it returns its chainable.
_ensureAxeInjected(win) ==
    IF isAxeInjectedThrows(win)
    THEN /\ pc' = "failed"
         /\ error' = "TypeError"
         /\ ensure' = "none"
         /\ readCount' = readCount
    ELSE IF isAxeInjected(win)
    THEN /\ pc' = "ensured"
         /\ error' = "none"
         /\ ensure' = "skipped"
         /\ readCount' = readCount
    ELSE /\ pc' = "reading"
         /\ error' = "none"
         /\ ensure' = "none"
         /\ readCount' = readCount + 1

\* The queue reaches the command: cy.window() yields win and the callback runs.
WindowThen ==
    /\ QueueReady
    /\ queue # <<>>
    /\ cur' = Head(queue)
    /\ queue' = Tail(queue)
    /\ _ensureAxeInjected(axe)
    /\ inFlight' = InFlightPlus(IF pc' = "failed" THEN 0 ELSE 1,
                                IF pc' = "reading" THEN 1 ELSE 0, 0)
    /\ context' = NoContext
    /\ axeOptions' = NoAxeOptions
    /\ interval' = Undefined
    /\ retries' = Undefined
    /\ remainingRetries' = 0
    /\ runLog' = <<>>
    /\ configureLog' = <<>>
    /\ result' = NoResult
    /\ UNCHANGED <<builderVars, axe, evalCount>>

\* cy.readFile(axePath) yields the source: injectAxeCore(win, source)
ReadFileThen ==
    /\ pc = "reading"
    /\ axe' = injectAxeCore(axe)
    /\ evalCount' = evalCount + 1
    /\ ensure' = "injected"
    /\ pc' = "ensured"
    /\ inFlight' = InFlightPlus(0, -1, 0)
    /\ UNCHANGED <<builderVars, queue, cur, context, axeOptions, interval, retries,
                   remainingRetries, runLog, configureLog, result, error, readCount>>

\* Mutant: the read failure is swallowed and the command goes on.
ReadFileFails_Swallowed ==
    /\ pc = "reading"
    /\ pc' = "ensured"
    /\ error' = "ResourceNotFound"
    /\ inFlight' = InFlightPlus(0, -1, 0)
    /\ UNCHANGED <<builderVars, queue, cur, ensure, context, axeOptions, interval, retries,
                   remainingRetries, runLog, configureLog, result, pageVars>>

\* cy.readFile(axePath) fails: the chain fails, no callback runs.
ReadFileFails ==
    /\ pc = "reading"
    /\ pc' = "failed"
    /\ error' = "ResourceNotFound"
    /\ inFlight' = InFlightPlus(-1, -1, 0)
    /\ UNCHANGED <<builderVars, queue, cur, ensure, context, axeOptions, interval, retries,
                   remainingRetries, runLog, configureLog, result, pageVars>>

\* axe.run(context || win.document, axeOptions) is called.
RunEntry(ctx, ao, delayed, waited) ==
    [context |-> ContextValue(ctx), options |-> OptionsValue(ao),
     delayed |-> delayed, waited |-> waited,
     outcome |-> "pending", violations |-> 0]

\* The callback after injection: read the configuration, start the first run.
analyzeThen ==
    /\ pc = "ensured"
    /\ cur.op = "analyze"
    /\ context' = _buildContext
    /\ axeOptions' = RestOptions(_options)
    /\ interval' = _options.interval
    /\ retries' = _options.retries
    /\ remainingRetries' = OrDefault(retries', 0)
    /\ IF axe.run
       THEN /\ runLog' = Append(runLog, RunEntry(context', axeOptions', FALSE, 0))
            /\ pc' = "scanning"
            /\ error' = error
       ELSE /\ runLog' = runLog
            /\ pc' = "failed"
            /\ error' = "TypeError"
    /\ inFlight' = IF axe.run THEN InFlightPlus(0, 0, 1) ELSE InFlightPlus(-1, 0, 0)
    /\ UNCHANGED <<builderVars, queue, cur, ensure, configureLog, result, pageVars>>

\* Mutant: the retry budget is not consulted.
ShouldRetry_NoBudget(violations, remaining) == violations > 0

\* Mutant: the last retry of the budget is never used.
ShouldRetry_OffByOne(violations, remaining) == violations > 0 /\ remaining > 1

\* results.violations.length > 0 && remainingRetries > 0
ShouldRetry(violations, remaining) == violations > 0 /\ remaining > 0

\* interval || 1000
DelayMs(i) == OrDefault(i, DefaultInterval)

\* Mutant: the chain resolves with the first run's result.
Resolved_First(log) ==
    [kind |-> "results", run |-> 1, violations |-> log[1].violations]

\* What the promise chain resolves with when the loop ends after these runs.
Resolved(log) ==
    [kind |-> "results", run |-> Len(log), violations |-> log[Len(log)].violations]

\* Mutant: the retry counter is kept in this._options.retries instead of a local.
RunResolves_PersistsCounter(v) ==
    /\ pc = "scanning"
    /\ runLog' = [runLog EXCEPT ![Len(runLog)].outcome = "resolved",
                                ![Len(runLog)].violations = v]
    /\ IF ShouldRetry(v, remainingRetries)
       THEN /\ remainingRetries' = remainingRetries - 1
            /\ _options' = [_options EXCEPT !.retries = Num(remainingRetries - 1)]
            /\ pc' = "waiting"
            /\ result' = result
       ELSE /\ remainingRetries' = remainingRetries
            /\ _options' = _options
            /\ pc' = "done"
            /\ result' = Resolved(runLog')
    /\ inFlight' = InFlightPlus(IF pc' = "done" THEN -1 ELSE 0, 0, -1)
    /\ UNCHANGED <<_includes, _excludes, heap, ops, queue, cur, ensure, context,
                   axeOptions, interval, retries, configureLog, error, pageVars>>

\* Mutant: the counter is not decremented when a retry is scheduled.
RunResolves_NoDecrement(v) ==
    /\ pc = "scanning"
    /\ runLog' = [runLog EXCEPT ![Len(runLog)].outcome = "resolved",
                                ![Len(runLog)].violations = v]
    /\ IF ShouldRetry(v, remainingRetries)
       THEN /\ pc' = "waiting"
            /\ result' = result
       ELSE /\ pc' = "done"
            /\ result' = Resolved(runLog')
    /\ inFlight' = InFlightPlus(IF pc' = "done" THEN -1 ELSE 0, 0, -1)
    /\ UNCHANGED <<builderVars, queue, cur, ensure, context, axeOptions, interval, retries,
                   remainingRetries, configureLog, error, pageVars>>

\* axe.run resolves: the .then callback of runAxeCheck.
RunResolves(v) ==
    /\ pc = "scanning"
    /\ runLog' = [runLog EXCEPT ![Len(runLog)].outcome = "resolved",
                                ![Len(runLog)].violations = v]
    /\ IF ShouldRetry(v, remainingRetries)
       THEN /\ remainingRetries' = remainingRetries - 1
            /\ pc' = "waiting"
            /\ result' = result
       ELSE /\ remainingRetries' = remainingRetries
            /\ pc' = "done"
            /\ result' = Resolved(runLog')
    /\ inFlight' = InFlightPlus(IF pc' = "done" THEN -1 ELSE 0, 0, -1)
    /\ UNCHANGED <<builderVars, queue, cur, ensure, context, axeOptions, interval, retries,
                   configureLog, error, pageVars>>

\* Mutant: a rejected run is retried like a run with violations.
RunRejects_Retried ==
    /\ pc = "scanning"
    /\ runLog' = [runLog EXCEPT ![Len(runLog)].outcome = "rejected"]
    /\ IF remainingRetries > 0
       THEN /\ remainingRetries' = remainingRetries - 1
            /\ pc' = "waiting"
            /\ error' = error
       ELSE /\ remainingRetries' = remainingRetries
            /\ pc' = "failed"
            /\ error' = "EngineRuntimeFailure"
    /\ inFlight' = InFlightPlus(IF pc' = "failed" THEN -1 ELSE 0, 0, -1)
    /\ UNCHANGED <<builderVars, queue, cur, ensure, context, axeOptions, interval, retries,
                   configureLog, result, pageVars>>

\* axe.run rejects: no .then callback runs, the rejection reaches the caller.
RunRejects ==
    /\ pc = "scanning"
    /\ runLog' = [runLog EXCEPT ![Len(runLog)].outcome = "rejected"]
    /\ pc' = "failed"
    /\ error' = "EngineRuntimeFailure"
    /\ inFlight' = InFlightPlus(-1, 0, -1)
    /\ UNCHANGED <<builderVars, queue, cur, ensure, context, axeOptions, interval, retries,
                   remainingRetries, configureLog, result, pageVars>>

\* setTimeout(() => resolve(runAxeCheck()), interval || 1000) fires.
RetryTimer ==
    /\ pc = "waiting"
    /\ runLog' = Append(runLog, RunEntry(context, axeOptions, TRUE, DelayMs(interval)))
    /\ pc' = "scanning"
    /\ inFlight' = InFlightPlus(0, 0, 1)
    /\ UNCHANGED <<builderVars, queue, cur, ensure, context, axeOptions, interval, retries,
                   remainingRetries, configureLog, result, error, pageVars>>

\* The callback of configure() after injection: axe.configure(config); return this
configureThen ==
    /\ pc = "ensured"
    /\ cur.op = "configure"
    /\ IF axe.configure
       THEN /\ configureLog' = Append(configureLog, cur.spec)
            /\ pc' = "done"
            /\ result' = [kind |-> "builder", run |-> 0, violations |-> 0]
            /\ error' = error
       ELSE /\ configureLog' = configureLog
            /\ pc' = "failed"
            /\ result' = result
            /\ error' = "TypeError"
    /\ inFlight' = InFlightPlus(-1, 0, 0)
    /\ UNCHANGED <<builderVars, queue, cur, ensure, context, axeOptions, interval, retries,
                   remainingRetries, runLog, pageVars>>

\* axe.configure(config) throws.
configureThrows ==
    /\ pc = "ensured"
    /\ cur.op = "configure"
    /\ axe.configure
    /\ configureLog' = Append(configureLog, cur.spec)
    /\ pc' = "failed"
    /\ error' = "EngineRuntimeFailure"
    /\ inFlight' = InFlightPlus(-1, 0, 0)
    /\ UNCHANGED <<builderVars, queue, cur, ensure, context, axeOptions, interval, retries,
                   remainingRetries, runLog, result, pageVars>>

\* ------------------------------------------------------------ specification
Step ==
    \/ WindowThen
    \/ ReadFileThen
    \/ ReadFileFails
    \/ analyzeThen
    \/ \E v \in ViolationCounts : RunResolves(v)
    \/ RunRejects
    \/ RetryTimer
    \/ configureThen
    \/ configureThrows

Next ==
    \/ \E s \in IncludeInputs : include(s)
    \/ \E s \in ExcludeInputs : exclude(s)
    \/ \E o \in OptionsInputs : options(o)
    \/ \E r \in RuleInputs : withRules(r)
    \/ \E t \in TagInputs : withTags(t)
    \/ \E r \in RuleInputs : disableRules(r)
    \/ \E b \in BOOLEAN : setLegacyMode(b)
    \/ analyze
    \/ \E c \in Specs : configure(c)
    \/ WindowThen
    \/ ReadFileThen
    \/ ReadFileFails
    \/ analyzeThen
    \/ \E v \in ViolationCounts : RunResolves(v)
    \/ RunRejects
    \/ RetryTimer
    \/ configureThen
    \/ configureThrows

Spec == Init /\ [][Next]_vars

\* The event loop runs every pending callback and timer, Cypress runs its queue,
\* and the engine settles every run it was given.
LiveSpec == Spec /\ WF_vars(Step)

\* ------------------------------------------------------------ properties
Max0(n) == IF n > 0 THEN n ELSE 0
Analyzing == cur.op = "analyze"
Runs == Len(runLog)
LastRun == runLog[Len(runLog)]
Settled == pc \in {"done", "failed"}

\* C1, as stated: for every configured value of `retries`, one analyze() issues at
\* most retries + 1 invocations of axe.run (retries counted as 0 when unset).
C1_AtMostRetriesPlusOne ==
    Analyzing => Runs <= OrDefault(retries, 0) + 1

\* Termination measure of the retry loop: every step of a scan in flight lowers it.
LoopMeasure ==
    IF pc = "scanning" THEN 2 * Max0(remainingRetries) + 2
    ELSE IF pc = "waiting" THEN 2 * Max0(remainingRetries) + 3
    ELSE 0

InLoop == pc \in {"scanning", "waiting"}

\* C1, amended: for every integer `retries` (or none), one analyze() issues at most
\* max(retries, 0) + 1 invocations of axe.run, the retry counter never increases
\* while the loop runs, and the loop terminates: it is never stuck, and each of its
\* steps lowers a measure that is bounded below.
C1_BoundedRetryLoop ==
    /\ [](Analyzing => Runs <= Max0(OrDefault(retries, 0)) + 1)
    /\ [](InLoop => ENABLED Step)
    /\ [][InLoop => (remainingRetries' <= remainingRetries)]_vars
    /\ [][(InLoop /\ callVars' # callVars) => (LoopMeasure' < LoopMeasure)]_vars

\* The same termination, as a liveness property under LiveSpec.
RetryLoopTerminates == [](InLoop => <>Settled)

C1_Witness ==
    /\ Analyzing /\ pc = "done"
    /\ retries = Num(MaxRetries)
    /\ Runs = MaxRetries + 1
    /\ remainingRetries = 0

AllRunsViolate ==
    \A i \in 1 .. Runs : runLog[i].outcome = "resolved" /\ runLog[i].violations > 0

\* C2: when every run returns violations, analyze() with retries = n >= 0 resolves
\* after exactly n + 1 runs; with `retries` unset it resolves after exactly one run,
\* whatever that run found.
C2_ExactRunCount ==
    (Analyzing /\ pc = "done") =>
        /\ (AllRunsViolate /\ retries.t = "number" /\ retries.n >= 0
                => Runs = retries.n + 1)
        /\ (retries = Undefined => Runs = 1)

C2_Witness ==
    /\ Analyzing /\ pc = "done"
    /\ retries = Num(2)
    /\ AllRunsViolate
    /\ Runs = 3

\* C3: analyze() stops at the first run without violations, whatever budget is
\* left, and resolves with the result of the last run it performed, also when that
\* result still has violations.
C3_StopsAtFirstCleanRun ==
    Analyzing =>
        /\ \A i \in 1 .. Runs - 1 :
              runLog[i].outcome = "resolved" /\ runLog[i].violations > 0
        /\ (Runs > 0 /\ LastRun.outcome = "resolved" /\ LastRun.violations = 0
                => pc = "done")
        /\ (pc = "done" =>
              /\ Runs > 0
              /\ LastRun.outcome = "resolved"
              /\ error = "none"
              /\ result = [kind |-> "results", run |-> Runs,
                           violations |-> LastRun.violations])

C3_Witness ==
    /\ Analyzing /\ pc = "done"
    /\ retries = Num(3)
    /\ Runs = 2
    /\ LastRun.violations = 0
    /\ remainingRetries = 2
    /\ result.run = 2

\* The delay the claim expects: the configured interval, 1000 only when it is unset.
ConfiguredDelay == IF interval = Undefined THEN DefaultInterval ELSE interval.n

\* C4: every retry run is preceded by a wait of exactly the configured `interval`
\* (1000 ms only when `interval` is unset), and the initial run by no wait.
C4_WaitsExactlyInterval ==
    Analyzing =>
        \A i \in 1 .. Runs :
            /\ (i = 1 => ~runLog[i].delayed)
            /\ (i > 1 => runLog[i].delayed /\ runLog[i].waited = ConfiguredDelay)

\* C5: on one page load the engine script is evaluated into the page at most once,
\* and a step taken against a page that already exposes a valid engine neither
\* reads nor evaluates the script.
C5_InjectedAtMostOnce ==
    /\ [](evalCount <= 1)
    /\ [][(axe = AxeEngine) => (readCount' = readCount /\ evalCount' = evalCount)]_vars

C5_Witness ==
    /\ pc = "done"
    /\ ensure = "skipped"
    /\ evalCount = 1
    /\ readCount = 1

\* C6: injection is skipped only when window.axe is an object with a callable run
\* AND a callable configure.
C6_GuardNeedsRunAndConfigure ==
    ensure = "skipped" => (axe.type = "object" /\ axe.run /\ axe.configure)

EngineCalled == Runs > 0 \/ Len(configureLog) > 0

\* C7: no call into the engine (run or configure) is issued before the injection
\* step of the same command has completed, by the guard or by read-and-evaluate.
C7_EngineCalledAfterInjection ==
    (EngineCalled \/ InLoop) =>
        /\ ensure \in {"skipped", "injected"}
        /\ (ensure = "injected" => evalCount > 0 /\ axe = AxeEngine)

C7_Witness ==
    /\ Analyzing
    /\ Runs > 0
    /\ ensure = "injected"

\* C8: when the engine script cannot be read, the command fails with that error,
\* axe.run is never invoked, nothing is evaluated into the page and the read is
\* not attempted again.
C8_ReadFailureAbortsAnalyze ==
    error = "ResourceNotFound" =>
        /\ pc = "failed"
        /\ ~EngineCalled
        /\ result = NoResult
        /\ evalCount = 0
        /\ readCount = 1

C8_Witness ==
    /\ Analyzing
    /\ pc = "failed"
    /\ error = "ResourceNotFound"

\* C9: a rejected run, initial or retry, fails analyze() with that error and is the
\* last run of the call, however many retries remain.
C9_RunRejectionIsFatal ==
    \A i \in 1 .. Runs :
        runLog[i].outcome = "rejected" =>
            /\ i = Runs
            /\ pc = "failed"
            /\ error = "EngineRuntimeFailure"
            /\ result = NoResult

C9_Witness ==
    /\ Runs >= 2
    /\ LastRun.outcome = "rejected"
    /\ remainingRetries > 0
    /\ pc = "failed"

\* C10: every run of one analyze() receives the same context and the same engine
\* options as its first run, whatever mutator is called on the builder meanwhile.
C10_SameContextAndOptions ==
    Analyzing =>
        \A i \in 1 .. Runs :
            /\ runLog[i].context = runLog[1].context
            /\ runLog[i].options = runLog[1].options

BuilderState == <<_includes, _excludes, _options, heap>>

\* C11: no step of analyze() (or configure()) writes the builder's includes,
\* excludes or run options, whatever the scan returns and however often it is
\* retried; the counter is a local, so each analyze() starts from the configured
\* `retries` again.
C11_AnalyzeLeavesBuilder ==
    /\ [][(callVars' # callVars \/ queue' # queue \/ pageVars' # pageVars)
             => (BuilderState' = BuilderState)]_vars
    /\ [][(pc = "ensured" /\ pc' = "scanning")
             => (remainingRetries' = OrDefault(_options.retries, 0))]_vars

\* A command after the first one, whose loop used up its retry, on a builder that
\* still holds the configured retries.
C11_Witness ==
    /\ Analyzing /\ pc = "done"
    /\ evalCount = 1 /\ ensure = "skipped"
    /\ Runs = 2
    /\ remainingRetries = 0
    /\ _options.retries = Num(1)

\* C12: for one builder at most one command, one script read and one axe.run are
\* in progress at any time; a re-scan is started only after the previous run has
\* settled and the delay has passed, and a later command only after the earlier
\* one has finished.
C12_OneStepAtATime ==
    /\ inFlight.commands \in {0, 1}
    /\ inFlight.injections \in {0, 1}
    /\ inFlight.scans \in {0, 1}
    /\ inFlight.injections + inFlight.scans <= inFlight.commands
    /\ (inFlight.injections = 1 <=> pc = "reading")
    /\ (inFlight.scans = 1 <=> pc = "scanning")
    /\ (inFlight.commands = 1 <=> pc \in {"reading", "ensured", "scanning", "waiting"})
    /\ \A i \in 1 .. Runs - 1 : runLog[i].outcome = "resolved"

\* A second command is queued while the retry delay of the first is pending.
C12_Witness ==
    /\ pc = "waiting"
    /\ queue # <<>>
    /\ inFlight = [commands |-> 1, injections |-> 0, scans |-> 0]

\* The list a call was given: the array itself, or the single value in a list.
GivenList(x) == IF x.isArray THEN x.arr ELSE <<x.one>>
InList(id, list) == \E i \in 1 .. Len(list) : list[i] = id

\* C13: after withTags / withRules, runOnly is exactly {type, values} of that call
\* (so the last call wins and nothing of an earlier filter remains), and every other
\* run option, the includes and the excludes are as before.
C13_LastFilterWins ==
    /\ [][\A t \in TagInputs : withTags(t) =>
            /\ _options' = [_options EXCEPT
                              !.runOnly = [type |-> "tag", values |-> GivenList(t)]]
            /\ UNCHANGED <<_includes, _excludes, heap>>]_vars
    /\ [][\A r \in RuleInputs : withRules(r) =>
            /\ _options' = [_options EXCEPT
                              !.runOnly = [type |-> "rule", values |-> GivenList(r)]]
            /\ UNCHANGED <<_includes, _excludes, heap>>]_vars

C13_Witness ==
    /\ ops = 2
    /\ _options.runOnly = [type |-> "rule", values |-> <<"label">>]

RulesOf(opts, h) == IF opts.rules = 0 THEN NoRules ELSE h[opts.rules]

\* C14: disableRules sets every rule id it is given to {enabled: false} and leaves
\* every other entry of the rule map as it was, so disables accumulate over calls;
\* no other run option, include or exclude changes.
C14_DisablesAccumulate ==
    [][\A r \in RuleInputs : disableRules(r) =>
          /\ _options'.rules # 0
          /\ \A id \in RuleIds :
                RulesOf(_options', heap')[id] =
                    IF InList(id, GivenList(r)) THEN "off"
                    ELSE RulesOf(_options, heap)[id]
          /\ [_options' EXCEPT !.rules = 0] = [_options EXCEPT !.rules = 0]
          /\ UNCHANGED <<_includes, _excludes>>]_vars

C14_Witness ==
    /\ _options.rules # 0
    /\ \A id \in RuleIds : heap[_options.rules][id] = "off"

IsNonEmptyString(v) == v.t = "string" /\ v.s # ""

\* C15, as stated: include / exclude append the selector if and only if it is a
\* non-empty string and are a no-op for every other input.
C15_AppendsOnlyNonEmptyStrings ==
    /\ [][\A x \in IncludeInputs : include(x) =>
            _includes' = IF IsNonEmptyString(x) THEN Append(_includes, x)
                         ELSE _includes]_vars
    /\ [][\A x \in ExcludeInputs : exclude(x) =>
            _excludes' = IF IsNonEmptyString(x) THEN Append(_excludes, x)
                         ELSE _excludes]_vars

IsPrefix(a, b) == Len(a) <= Len(b) /\ SubSeq(b, 1, Len(a)) = a

\* C15, amended: include / exclude append the selector to the end of their list if
\* and only if it is truthy (a non-empty string, or a truthy value of another type)
\* and are a no-op for a falsy one; both lists are append-only, and neither
\* operation touches the other list or the run options.
C15_AppendsTruthySelectors ==
    /\ [][\A x \in IncludeInputs : include(x) =>
            /\ _includes' = IF Truthy(x) THEN _includes \o <<x>> ELSE _includes
            /\ UNCHANGED <<_excludes, _options, heap>>]_vars
    /\ [][\A x \in ExcludeInputs : exclude(x) =>
            /\ _excludes' = IF Truthy(x) THEN _excludes \o <<x>> ELSE _excludes
            /\ UNCHANGED <<_includes, _options, heap>>]_vars
    /\ [][IsPrefix(_includes, _includes') /\ IsPrefix(_excludes, _excludes')]_vars

C15_Witness ==
    /\ _includes = <<Str("body"), Num(7)>>
    /\ _excludes = <<>>

\* C16: the context of the run that analyze() issues after building it is a function
\* of the two lists: the whole document when both are empty, otherwise an object
\* holding `include` exactly when includes is non-empty and `exclude` exactly when
\* excludes is non-empty, each the full ordered list; no run ever receives an
\* object with an empty or missing-but-flagged list.
C16_ContextFromLists ==
    /\ [][(pc = "ensured" /\ pc' = "scanning") =>
            LastRun'.context =
                [document |-> _includes = <<>> /\ _excludes = <<>>,
                 hasInclude |-> _includes # <<>>,
                 include |-> _includes,
                 hasExclude |-> _excludes # <<>>,
                 exclude |-> _excludes]]_vars
    /\ [](\A i \in 1 .. Runs :
            LET c == runLog[i].context
            IN  /\ c.document <=> (~c.hasInclude /\ ~c.hasExclude)
                /\ c.hasInclude <=> c.include # <<>>
                /\ c.hasExclude <=> c.exclude # <<>>)

C16_Witness ==
    /\ Runs = 1
    /\ runLog[1].context =
         [document |-> FALSE, hasInclude |-> FALSE, include |-> <<>>,
          hasExclude |-> TRUE, exclude |-> <<Str("#ads")>>]

OptionKeys == {"interval", "retries", "runOnly", "rules", "iframes"}

\* Whether an object literal handed to options() has key k, and its value.
InputHas(o, k) ==
    CASE k = "interval" -> o.interval # Undefined
      [] k = "retries" -> o.retries # Undefined
      [] k = "runOnly" -> o.runOnly # NoRunOnly
      [] k = "rules" -> o.hasRules
      [] k = "iframes" -> o.iframes # "absent"
InputValue(o, k) == IF k = "rules" THEN o.rulesLit ELSE o[k]

\* Whether the run options have key k, and its value.
OptionsHave(opts, k) ==
    CASE k = "interval" -> opts.interval # Undefined
      [] k = "retries" -> opts.retries # Undefined
      [] k = "runOnly" -> opts.runOnly # NoRunOnly
      [] k = "rules" -> opts.rules # 0
      [] k = "iframes" -> opts.iframes # "absent"
OptionsGet(opts, h, k) == IF k = "rules" THEN RulesOf(opts, h) ELSE opts[k]

\* C17: after options(o) every key of o holds the value from o (a runOnly set by
\* withRules / withTags included), every other key is as before, and the includes
\* and excludes are unchanged.
C17_OptionsShallowMerge ==
    [][\A o \in OptionsInputs : options(o) =>
          /\ \A k \in OptionKeys :
                IF InputHas(o, k)
                THEN /\ OptionsHave(_options', k)
                     /\ OptionsGet(_options', heap', k) = InputValue(o, k)
                ELSE /\ OptionsHave(_options', k) = OptionsHave(_options, k)
                     /\ OptionsGet(_options', heap', k) = OptionsGet(_options, heap, k)
          /\ UNCHANGED <<_includes, _excludes>>]_vars

C17_Witness ==
    /\ ops = 2
    /\ _options.retries = Num(1)
    /\ _options.rules # 0
    /\ heap[_options.rules] = [NoRules EXCEPT !["label"] = "on"]
    /\ _options.runOnly = [type |-> "tag", values |-> <<"best-practice">>]
    /\ _options.iframes = "false"

\* C18: `interval` and `retries` never reach the engine; the run issued when the
\* configuration is read receives every other run option with its configured value,
\* and the local counter starts at `retries`, or at 0 when `retries` is unset.
C18_PrivateKeysStripped ==
    /\ [](\A i \in 1 .. Runs :
            /\ runLog[i].options.interval = Undefined
            /\ runLog[i].options.retries = Undefined)
    /\ [][(pc = "ensured" /\ pc' = "scanning") =>
            /\ \A k \in OptionKeys \ {"interval", "retries"} :
                  /\ LastRun'.options[k] = OptionsGet(_options, heap, k)
                  /\ (k = "rules" => LastRun'.options.hasRules = OptionsHave(_options, k))
            /\ remainingRetries' =
                  IF _options.retries = Undefined THEN 0 ELSE _options.retries.n]_vars

C18_Witness ==
    /\ pc = "scanning"
    /\ Runs = 1
    /\ _options.retries = Num(2)
    /\ _options.interval = Num(500)
    /\ remainingRetries = 2
    /\ LastRun.options.retries = Undefined
    /\ LastRun.options.interval = Undefined

\* C19: a configure(spec) call never invokes run; once injection is ensured it
\* invokes the engine's configure exactly once with spec and resolves to the
\* builder; if injection fails, the engine's configure is not called.
C19_ConfigureOnceAfterInjection ==
    (cur.op = "configure") =>
        /\ Runs = 0
        /\ (Settled /\ ensure \in {"skipped", "injected"}) => configureLog = <<cur.spec>>
        /\ (pc = "done") => result.kind = "builder"
        /\ (Settled /\ ensure = "none") => configureLog = <<>>

Min0(n) == IF n < 0 THEN n ELSE 0

\* C20, as stated: while a scan is in flight, runs issued + remaining counter =
\* retries + 1, and the counter is never below 0 and never above `retries`.
C20_CounterWithinZeroAndRetries ==
    (Analyzing /\ pc = "scanning") =>
        /\ Runs + remainingRetries = OrDefault(retries, 0) + 1
        /\ remainingRetries >= 0
        /\ remainingRetries <= OrDefault(retries, 0)

\* C20, amended: while a scan is in flight, runs issued + remaining counter =
\* retries + 1, and the counter is never above `retries` and never below
\* min(retries, 0), that is never below 0 for a non-negative `retries`.
C20_RetryAccounting ==
    (Analyzing /\ pc = "scanning") =>
        /\ Runs + remainingRetries = OrDefault(retries, 0) + 1
        /\ remainingRetries >= Min0(OrDefault(retries, 0))
        /\ remainingRetries <= OrDefault(retries, 0)

C20_Witness ==
    /\ Analyzing
    /\ pc = "scanning"
    /\ retries = Num(3)
    /\ Runs = 3
    /\ remainingRetries = 1

====
